---- MODULE Spec2Model ----
(***************************************************************************)
(* Model of the personal-finance tracker's application tier (src/app.js):  *)
(* the Express handlers for registration, login, logout, the OTP-based     *)
(* password reset and the transactions, over the users, password_resets   *)
(* and transactions tables and the express-session state.                 *)
(*                                                                         *)
(* A handler that awaits several shared operations (forgot-password,       *)
(* verify-otp) is one action per await segment, so that requests of        *)
(* different sessions interleave exactly where the event loop lets them.   *)
(* A handler with a single store statement is one action.  Each session    *)
(* has at most one request in flight.  Every store statement may fail      *)
(* (pool.query rejects): the `ok` parameter of the actions.  What a handler *)
(* answers is an operator of the state and the request (the ...Response    *)
(* operators); the action applies the handler's writes.                    *)
(***************************************************************************)
EXTENDS Integers, Sequences, FiniteSets, TLC

\* ---------------------------------------------------------------- bounds
MaxClock == 2       \* number of clock ticks
MaxIssues == 2      \* number of OTP codes generated
MaxUserSeq == 2     \* number of INSERTs into users that reach the store
MaxTxSeq == 3       \* number of INSERTs into transactions that succeed
MaxDay == 1         \* number of midnights on the database server

Sessions == {"s1", "s2"}

\* ------------------------------------------------------- input domains
Passwords == {"pw1", "pw2"}
Undefined == "<undefined>"          \* a body field the client left out
PasswordInputs == Passwords \cup {Undefined}

EmailShaped == {"a@x.com", "b@x.com", "n@x.com"}
PhoneShaped == {"+15551", "+15552"}

\* registration bodies: <<username, email, mobile>>
RegInputs ==
    { <<"alice", "a@x.com", "+15551">>,
      <<"bob", "b@x.com", "+15552">>,
      <<"bob", "a@x.com", "+15552">>,
      <<"carol", "junk", "+15552">>,
      <<"carol", "b@x.com", "junk">> }

Usernames == {"alice", "bob", "carol"}

\* identifiers submitted to forgot-password and verify-otp
IdInputs == {"a@x.com", "+15551", "n@x.com"}

NoId == ""                           \* req.session.resetIdentifier absent
NoUser == [id |-> 0, username |-> ""] \* req.session.user absent
NoCode == <<>>

\* ------------------------------------------------------ pure functions
isEmail(x) == x \in EmailShaped

isMobilePhone(x) == x \in PhoneShaped

\* bcrypt.hash(password, 10): an opaque digest (the salt is left out)
Hash(pw) == <<"$2b$10$", pw>>

\* mutant: the digest's password is not compared
Compare_Any(pw, digest) == digest[1] = "$2b$10$"

\* bcrypt.compare(password, digest)
Compare(pw, digest) == digest[1] = "$2b$10$" /\ digest[2] = pw

\* Number.prototype.toString(): the decimal digits, most significant first
RECURSIVE NumToString(_)
NumToString(n) ==
    IF n < 10 THEN <<n>> ELSE Append(NumToString(n \div 10), n % 10)

OtpBase == 100000
OtpSpan == 900000

\* the values of Math.random() tried, in thousandths: the least and the greatest
Randoms == {0, 999}

\* Math.floor(100000 + Math.random() * 900000).toString()
GenerateOtp(random) == NumToString(OtpBase + ((random * OtpSpan) \div 1000))

OtpCodes == { GenerateOtp(random) : random \in Randoms }

\* new Date(Date.now() + 10 * 60000)
OtpTtlMs == 10 * 60000
ExpiresAt(t) == t + OtpTtlMs

\* one clock tick is the lifetime of a code
TickMs == OtpTtlMs

VARIABLES
    users,            \* table users: rows [id, username, email, mobile, password]
    userSeq,          \* the SERIAL sequence behind users.id
    password_resets,  \* table password_resets: rows [identifier, code, expires_at]
    session,          \* per session: [user, resetIdentifier]
    req,              \* per session: the request in flight
    clock,            \* ticks of the wall clock
    otpSeq,           \* number of codes generated so far
    transactions,     \* table transactions: set of rows
    txSeq,            \* the SERIAL sequence behind transactions.id
    today,            \* CURRENT_DATE on the database server, in days
    \* history variables, read by the properties only
    lastUpsert,       \* per identifier: the last upserted code still in the ledger
                      \* and the code it replaced
    consumed,         \* per identifier: a verify-otp answered 200 since the last upsert
    okCount,          \* per issued code: number of verify-otp requests answered 200
    verified,         \* per session: the identifiers a verify-otp answered 200 for
    grantUses,        \* per session: reset-passwords answered 200 since the grant
    lastPw,           \* per user id: plaintext of the last register / reset
    prevPw,           \* per user id: plaintext before the last reset
    destroyed,        \* per session: the last logout destroyed a session that held
                      \* a user and a reset permission, and neither a login nor a
                      \* verify-otp has written to the session since
    misdelivered,     \* per identifier: the last SMS sent since the row was written
                      \* carried another code than the row's
    outlived,         \* per session: a reset-password of another session replaced
                      \* the password of the user this session is logged in as
    server,           \* startServer: where the process is
    tables            \* the tables that exist in the database

vars == <<users, userSeq, password_resets, session, req, clock, otpSeq,
          transactions, txSeq, today,
          lastUpsert, consumed, okCount, verified, grantUses, lastPw, prevPw, destroyed,
          misdelivered, outlived, server, tables>>

\* the tables initializeDatabase creates, in its order
TableOrder == <<"transactions", "users", "password_resets">>

Tables == { TableOrder[n] : n \in DOMAIN TableOrder }

\* the variables only the start of the server writes
startup == <<server, tables>>

\* app.listen has been called: requests reach the handlers
Listening == server = <<"listening">>

ledger == <<transactions, txSeq, today>>

store == <<users, userSeq, password_resets>>
history == <<lastUpsert, consumed, okCount, verified, grantUses, lastPw, prevPw>>

DateNow == clock * TickMs

Idle == [pc |-> "idle"]

NoIssue == [code |-> NoCode, issue |-> 0, at |-> 0, prev |-> NoCode]

\* res.status(status).json({message | error: body})
Resp(status, body) == [status |-> status, body |-> body]

Pending == Resp(0, "<await>")       \* the handler is at an await, nothing sent yet
NoResponse == Resp(0, "<none>")     \* the handler ended without sending anything

\* startServer has run initializeDatabase on an empty database and called
\* app.listen; no request has been handled
Init ==
    /\ users = {}
    /\ userSeq = 0
    /\ password_resets = {}
    /\ session = [s \in Sessions |-> [user |-> NoUser, resetIdentifier |-> NoId]]
    /\ req = [s \in Sessions |-> Idle]
    /\ clock = 0
    /\ otpSeq = 0
    /\ transactions = {}
    /\ txSeq = 0
    /\ today = 0
    /\ destroyed = [s \in Sessions |-> FALSE]
    /\ misdelivered = [i \in IdInputs |-> FALSE]
    /\ outlived = [s \in Sessions |-> FALSE]
    /\ server = <<"listening">>
    /\ tables = Tables
    /\ lastUpsert = [i \in IdInputs |-> NoIssue]
    /\ consumed = [i \in IdInputs |-> FALSE]
    /\ okCount = [n \in 1 .. MaxIssues |-> 0]
    /\ verified = [s \in Sessions |-> {}]
    /\ grantUses = [s \in Sessions |-> 0]
    /\ lastPw = [n \in 1 .. MaxUserSeq |-> Undefined]
    /\ prevPw = [n \in 1 .. MaxUserSeq |-> Undefined]

\* ------------------------------------------------- startServer
\* where startServer is while initializeDatabase awaits its n-th CREATE TABLE
Creating(n) == <<"creating", TableOrder[n]>>

\* the process is started: nothing is created by this run yet; a run before
\* may have left the first tables in the database
InitStart ==
    /\ users = {}
    /\ userSeq = 0
    /\ password_resets = {}
    /\ session = [s \in Sessions |-> [user |-> NoUser, resetIdentifier |-> NoId]]
    /\ req = [s \in Sessions |-> Idle]
    /\ clock = 0
    /\ otpSeq = 0
    /\ transactions = {}
    /\ txSeq = 0
    /\ today = 0
    /\ destroyed = [s \in Sessions |-> FALSE]
    /\ misdelivered = [i \in IdInputs |-> FALSE]
    /\ outlived = [s \in Sessions |-> FALSE]
    /\ server = Creating(1)
    /\ \E n \in 0 .. Len(TableOrder) : tables = { TableOrder[m] : m \in 1 .. n }
    /\ lastUpsert = [i \in IdInputs |-> NoIssue]
    /\ consumed = [i \in IdInputs |-> FALSE]
    /\ okCount = [n \in 1 .. MaxIssues |-> 0]
    /\ verified = [s \in Sessions |-> {}]
    /\ grantUses = [s \in Sessions |-> 0]
    /\ lastPw = [n \in 1 .. MaxUserSeq |-> Undefined]
    /\ prevPw = [n \in 1 .. MaxUserSeq |-> Undefined]

AfterCreate_Swallowed(n, ok) ==
    IF ~ok THEN <<"listening">>
    ELSE IF n < Len(TableOrder) THEN Creating(n + 1)
    ELSE <<"listening">>

\* where startServer goes after the n-th CREATE TABLE: a rejected query is
\* rethrown by initializeDatabase (line 69) and caught by startServer (line
\* 372), which returns without app.listen; after the last one app.listen runs
AfterCreate(n, ok) ==
    IF ~ok THEN <<"failed">>
    ELSE IF n < Len(TableOrder) THEN Creating(n + 1)
    ELSE <<"listening">>

\* one CREATE TABLE IF NOT EXISTS of initializeDatabase, and what follows it
\* up to the next await
CreateTable(ok) ==
    /\ \E n \in DOMAIN TableOrder :
          /\ server = Creating(n)
          /\ server' = AfterCreate(n, ok)
          /\ tables' = IF ok THEN tables \cup {TableOrder[n]} ELSE tables
    /\ UNCHANGED <<store, session, req, clock, otpSeq, ledger, history, destroyed,
                   misdelivered, outlived>>

\* ------------------------------------------------------------- the clock
Tick ==
    /\ clock < MaxClock
    /\ clock' = clock + 1
    /\ UNCHANGED <<ledger, destroyed, misdelivered, outlived, startup>>
    /\ UNCHANGED <<store, session, req, otpSeq, history>>

\* --------------------------------------------------- POST /api/register
\* mutant: only username is UNIQUE
UniqueViolation_UsernameOnly(username, email, mobile) ==
    \E u \in users : u.username = username

\* error 23505: one of the UNIQUE constraints of lines 48-50 is violated
UniqueViolation(username, email, mobile) ==
    \E u \in users : u.username = username \/ u.email = email \/ u.mobile = mobile

RegisterResponse(prof, pw, ok) ==
    IF ~isEmail(prof[2]) THEN Resp(400, "Invalid email format.")
    ELSE IF ~isMobilePhone(prof[3]) THEN Resp(400, "Invalid mobile number format.")
    ELSE IF pw = Undefined \/ ~ok THEN Resp(500, "Registration failed due to server error.")
    ELSE IF UniqueViolation(prof[1], prof[2], prof[3])
    THEN Resp(409, "Username, email, or mobile already in use.")
    ELSE Resp(201, "User registered successfully")

Register(s, prof, pw, ok) ==
    LET res == RegisterResponse(prof, pw, ok) IN
    /\ req[s].pc = "idle"
    /\ Listening
    /\ UNCHANGED <<ledger, destroyed, misdelivered, outlived, startup>>
    /\ IF res.status \in {201, 409}      \* the INSERT reached the table: nextval is spent
       THEN /\ userSeq < MaxUserSeq
            /\ userSeq' = userSeq + 1
       ELSE UNCHANGED userSeq
    /\ IF res.status = 201
       THEN /\ users' = users \cup
                  { [id |-> userSeq + 1, username |-> prof[1], email |-> prof[2],
                     mobile |-> prof[3], password |-> Hash(pw)] }
            /\ lastPw' = [lastPw EXCEPT ![userSeq + 1] = pw]
       ELSE UNCHANGED <<users, lastPw>>
    /\ UNCHANGED <<password_resets, session, req, clock, otpSeq,
                   lastUpsert, consumed, okCount, verified, grantUses, prevPw>>

\* ------------------------------------------------------ POST /api/login
\* SELECT * FROM users WHERE username = $1
UsersByName(username) == { u \in users : u.username = username }

LoginResponse(username, pw, ok) ==
    LET rows == UsersByName(username) IN
    IF ~ok THEN Resp(500, "Login failed due to server error")
    ELSE IF rows = {} THEN Resp(401, "Invalid credentials")
    ELSE IF pw = Undefined THEN Resp(500, "Login failed due to server error")
    ELSE IF Compare(pw, (CHOOSE u \in rows : TRUE).password)
    THEN Resp(200, "Login successful")
    ELSE Resp(401, "Invalid credentials")

\* req.session.user = { id: user.id, username: user.username }
SessionUser(user) == [id |-> user.id, username |-> user.username]

LoginBinding(username) == SessionUser(CHOOSE u \in UsersByName(username) : TRUE)

Login(s, username, pw, ok) ==
    /\ req[s].pc = "idle"
    /\ IF LoginResponse(username, pw, ok).status = 200
       THEN /\ session' = [session EXCEPT ![s].user = LoginBinding(username)]
            /\ destroyed' = [destroyed EXCEPT ![s] = FALSE]
            /\ outlived' = [outlived EXCEPT ![s] = FALSE]
       ELSE UNCHANGED <<session, destroyed, outlived>>
    /\ Listening
    /\ UNCHANGED <<ledger, misdelivered, startup>>
    /\ UNCHANGED <<store, req, clock, otpSeq, history>>

\* ----------------------------------------------------- POST /api/logout
LogoutResponse == Resp(200, "Logged out")

\* mutant: only the user is removed from the session
Destroy_UserOnly(sess) == [sess EXCEPT !.user = NoUser]

\* req.session.destroy(): the next request of the client starts an empty session
Destroy(sess) == [user |-> NoUser, resetIdentifier |-> NoId]

Logout(s) ==
    /\ req[s].pc = "idle"
    /\ session' = [session EXCEPT ![s] = Destroy(session[s])]
    /\ destroyed' = [destroyed EXCEPT ![s] =
                        session[s].user # NoUser /\ session[s].resetIdentifier # NoId]
    /\ outlived' = [outlived EXCEPT ![s] = FALSE]
    /\ Listening
    /\ UNCHANGED <<ledger, misdelivered, startup>>
    /\ verified' = [verified EXCEPT ![s] = {}]
    /\ grantUses' = [grantUses EXCEPT ![s] = 0]
    /\ UNCHANGED <<store, req, clock, otpSeq, lastUpsert, consumed, okCount, lastPw, prevPw>>

\* --------------------------------------------- POST /api/forgot-password
\* mutant: ON CONFLICT (identifier) DO NOTHING
Upsert_KeepFirst(rows, row) ==
    IF \E r \in rows : r.identifier = row.identifier THEN rows ELSE rows \cup {row}

\* INSERT ... ON CONFLICT (identifier) DO UPDATE SET code = $2, expires_at = $3
Upsert(rows, row) ==
    IF \E r \in rows : r.identifier = row.identifier
    THEN { IF r.identifier = row.identifier THEN row ELSE r : r \in rows }
    ELSE rows \cup {row}

\* mutant: the WHERE clause is left out
UserLookup_AnyUser(identifier) ==
    IF isMobilePhone(identifier)
    THEN { [mobile |-> u.mobile, email |-> ""] : u \in users }
    ELSE { [mobile |-> "", email |-> u.email] : u \in users }

\* the rows of SELECT mobile / SELECT email FROM users WHERE ... = identifier;
\* a column that was not selected reads as undefined, here ""
UserLookup(identifier) ==
    IF isMobilePhone(identifier)
    THEN { [mobile |-> u.mobile, email |-> ""] : u \in { v \in users : v.mobile = identifier } }
    ELSE { [mobile |-> "", email |-> u.email] : u \in { v \in users : v.email = identifier } }

\* lines 96-110: the answer of the lookup segment
ForgotStartResponse(identifier, ok) ==
    IF ~ok THEN NoResponse           \* the SELECT rejects outside the try block
    ELSE IF UserLookup(identifier) = {}
    THEN Resp(200, "If user exists, code has been sent.")
    ELSE Pending

\* lines 96-118: the user lookup, the early generic answer, the code and its expiry
ForgotStart(s, identifier, ok) ==
    /\ req[s].pc = "idle"
    /\ Listening
    /\ UNCHANGED <<ledger, destroyed, misdelivered, outlived, startup>>
    /\ IF ForgotStartResponse(identifier, ok) = Pending
       THEN /\ otpSeq < MaxIssues
            /\ otpSeq' = otpSeq + 1
            /\ \E row \in UserLookup(identifier), random \in Randoms :
                  req' = [req EXCEPT ![s] =
                            [pc |-> "fp_upsert", identifier |-> identifier,
                             contact |-> IF row.mobile # "" THEN row.mobile ELSE row.email,
                             isMobile |-> row.mobile # "",
                             otpCode |-> GenerateOtp(random),
                             expiresAt |-> ExpiresAt(DateNow),
                             issue |-> otpSeq + 1, issuedAt |-> DateNow]]
       ELSE UNCHANGED <<req, otpSeq>>
    /\ UNCHANGED <<store, session, clock, history>>

\* lines 120-126, 136-148: the answer of the upsert segment
ForgotUpsertResponse(s, ok) ==
    IF ~ok THEN Resp(500, "Failed to initiate password reset service.")
    ELSE IF req[s].isMobile THEN Pending
    ELSE Resp(200, "Verification code sent.")

ForgotUpsert(s, ok) ==
    LET r == req[s] IN
    /\ r.pc = "fp_upsert"
    /\ Listening
    /\ UNCHANGED <<ledger, destroyed, outlived, startup>>
    /\ IF ok
       THEN /\ password_resets' = Upsert(password_resets,
                                         [identifier |-> r.identifier, code |-> r.otpCode,
                                          expires_at |-> r.expiresAt, issue |-> r.issue])
            /\ lastUpsert' = [lastUpsert EXCEPT ![r.identifier] =
                                 [code |-> r.otpCode, issue |-> r.issue, at |-> r.issuedAt,
                                  prev |-> @.code]]
            /\ consumed' = [consumed EXCEPT ![r.identifier] = FALSE]
            /\ misdelivered' = [misdelivered EXCEPT ![r.identifier] = FALSE]
       ELSE UNCHANGED <<password_resets, lastUpsert, consumed, misdelivered>>
    /\ req' = [req EXCEPT ![s] = IF ForgotUpsertResponse(s, ok) = Pending
                                 THEN [r EXCEPT !.pc = "fp_send"] ELSE Idle]
    /\ UNCHANGED <<users, userSeq, session, clock, otpSeq,
                   okCount, verified, grantUses, lastPw, prevPw>>

\* lines 129-148: twilioClient.messages.create and the answer
ForgotSendResponse(ok) ==
    IF ok THEN Resp(200, "Verification code sent.")
    ELSE Resp(500, "Failed to initiate password reset service.")

\* the SMS carries the code of request r while the ledger row holds another
Misdelivery(r) == \E row \in password_resets :
                     row.identifier = r.identifier /\ row.code # r.otpCode

ForgotSend(s, ok) ==
    /\ req[s].pc = "fp_send"
    /\ Listening
    /\ misdelivered' = IF ok THEN [misdelivered EXCEPT ![req[s].identifier] = Misdelivery(req[s])]
                            ELSE misdelivered
    /\ UNCHANGED <<ledger, destroyed, outlived, startup>>
    /\ req' = [req EXCEPT ![s] = Idle]
    /\ UNCHANGED <<store, session, clock, otpSeq, history>>

\* -------------------------------------------------- POST /api/verify-otp
\* SELECT code, expires_at FROM password_resets WHERE identifier = $1
ResetsFor(identifier) == { r \in password_resets : r.identifier = identifier }

\* mutant: <= for <
Expired_AtDeadline(expires_at, now) == expires_at <= now

\* new Date(resetRequest.expires_at) < new Date()
Expired(expires_at, now) == expires_at < now

\* lines 266-284: the answer of the SELECT segment, given result.rows[0]
VerifyCheck(rows, otpCode, ok) ==
    IF ~ok THEN Resp(500, "Verification failed.")
    ELSE IF rows = {} THEN Resp(400, "Invalid verification code.")
    ELSE LET resetRequest == CHOOSE r \in rows : TRUE IN
         IF resetRequest.code # otpCode THEN Resp(400, "Invalid verification code.")
         ELSE IF Expired(resetRequest.expires_at, DateNow)
         THEN Resp(400, "Verification code has expired.")
         ELSE Pending

VerifySelectResponse(identifier, otpCode, ok) ==
    VerifyCheck(ResetsFor(identifier), otpCode, ok)

\* mutant: the permission is granted in a fresh session
GrantReset_FreshSession(sess, identifier) == [user |-> NoUser, resetIdentifier |-> identifier]

\* req.session.resetIdentifier = identifier
GrantReset(sess, identifier) == [sess EXCEPT !.resetIdentifier = identifier]

\* the session after the SELECT segment: the flag is set once both checks pass
SessionAfterVerify(s, identifier, otpCode, ok) ==
    IF VerifySelectResponse(identifier, otpCode, ok) = Pending
    THEN GrantReset(session[s], identifier)
    ELSE session[s]

VerifySelect(s, identifier, otpCode, ok) ==
    /\ req[s].pc = "idle"
    /\ session' = [session EXCEPT ![s] = SessionAfterVerify(s, identifier, otpCode, ok)]
    /\ Listening
    /\ UNCHANGED <<ledger, misdelivered, outlived, startup>>
    /\ IF VerifySelectResponse(identifier, otpCode, ok) = Pending
       THEN /\ grantUses' = [grantUses EXCEPT ![s] = 0]
            /\ destroyed' = [destroyed EXCEPT ![s] = FALSE]
            /\ req' = [req EXCEPT ![s] =
                         [pc |-> "vo_delete", identifier |-> identifier,
                          otpCode |-> otpCode,
                          issue |-> (CHOOSE r \in ResetsFor(identifier) : TRUE).issue,
                          flagBefore |-> session[s].resetIdentifier]]
       ELSE UNCHANGED <<req, grantUses, destroyed>>
    /\ UNCHANGED <<store, clock, otpSeq, lastUpsert, consumed, okCount, verified,
                   lastPw, prevPw>>

\* mutant: the DELETE matches no row
DeleteResets_NoRow(rows, identifier) == rows

\* DELETE FROM password_resets WHERE identifier = $1
DeleteResets(rows, identifier) == { r \in rows : r.identifier # identifier }

\* lines 286-294: the answer of the DELETE segment
VerifyDeleteResponse(ok) ==
    IF ok THEN Resp(200, "Code verified. Ready to reset password.")
    ELSE Resp(500, "Verification failed.")

VerifyDelete(s, ok) ==
    LET r == req[s] IN
    /\ r.pc = "vo_delete"
    /\ Listening
    /\ UNCHANGED <<ledger, destroyed, outlived, startup>>
    /\ req' = [req EXCEPT ![s] = Idle]
    /\ IF ok
       THEN /\ password_resets' = DeleteResets(password_resets, r.identifier)
            /\ lastUpsert' = [lastUpsert EXCEPT ![r.identifier] = NoIssue]
            /\ consumed' = [consumed EXCEPT ![r.identifier] = TRUE]
            /\ okCount' = [okCount EXCEPT ![r.issue] = @ + 1]
            /\ verified' = [verified EXCEPT ![s] = @ \cup {r.identifier}]
            /\ misdelivered' = [misdelivered EXCEPT ![r.identifier] = FALSE]
       ELSE UNCHANGED <<password_resets, lastUpsert, consumed, okCount, verified, misdelivered>>
    /\ UNCHANGED <<users, userSeq, session, clock, otpSeq, grantUses, lastPw, prevPw>>

\* ------------------------------------------------ POST /api/reset-password
\* mutant: the column is always email
ResetField_Email(identifier) == "email"

\* validator.isEmail(identifier) ? 'email' : 'mobile'
ResetField(identifier) == IF isEmail(identifier) THEN "email" ELSE "mobile"

\* mutant: the WHERE clause is left out
UpdatePassword_AllRows(rows, field, identifier, digest) ==
    { [u EXCEPT !.password = digest] : u \in rows }

\* UPDATE users SET password = $1 WHERE ${field} = $2
UpdatePassword(rows, field, identifier, digest) ==
    { IF u[field] = identifier THEN [u EXCEPT !.password = digest] ELSE u : u \in rows }

ResetResponse(s, pw, ok) ==
    IF session[s].resetIdentifier = NoId
    THEN Resp(401, "Reset session expired or invalid.")
    ELSE IF pw = Undefined \/ ~ok THEN Resp(500, "Failed to reset password.")
    ELSE Resp(200, "Password successfully updated.")

\* mutant: the delete of the flag is left out
FlagAfterReset_Kept(identifier, status) == identifier

\* delete req.session.resetIdentifier, reached on success only
FlagAfterReset(identifier, status) == IF status = 200 THEN NoId ELSE identifier

\* the users the reset is for: those whose email or mobile is the identifier
ResetTargets(identifier) ==
    { u.id : u \in { v \in users : v.email = identifier \/ v.mobile = identifier } }

\* the users table after the handler ran
UsersAfterReset(s, pw, ok) ==
    IF ResetResponse(s, pw, ok).status = 200
    THEN UpdatePassword(users, ResetField(session[s].resetIdentifier),
                        session[s].resetIdentifier, Hash(pw))
    ELSE users

\* the other sessions that are logged in as a user the reset is for
SessionsOf(s, identifier) ==
    { t \in Sessions \ {s} : /\ session[t].user # NoUser
                              /\ session[t].user.id \in ResetTargets(identifier) }

SessionsAfterReset_LogoutUser(s, identifier, status) ==
    [t \in Sessions |->
        IF t = s
        THEN [session[s] EXCEPT !.resetIdentifier = FlagAfterReset(identifier, status)]
        ELSE IF status = 200 /\ t \in SessionsOf(s, identifier)
             THEN [session[t] EXCEPT !.user = NoUser]
             ELSE session[t]]

\* the session store after the handler ran: it writes req.session only
SessionsAfterReset(s, identifier, status) ==
    [session EXCEPT ![s].resetIdentifier = FlagAfterReset(identifier, status)]

ResetPassword(s, pw, ok) ==
    LET identifier == session[s].resetIdentifier
        res == ResetResponse(s, pw, ok)
    IN
    /\ req[s].pc = "idle"
    /\ Listening
    /\ UNCHANGED <<ledger, destroyed, misdelivered, startup>>
    /\ session' = SessionsAfterReset(s, identifier, res.status)
    /\ outlived' = [t \in Sessions |->
                      (res.status = 200 /\ t \in SessionsOf(s, identifier)) \/ outlived[t]]
    /\ users' = UsersAfterReset(s, pw, ok)
    /\ IF res.status = 200
       THEN /\ grantUses' = [grantUses EXCEPT ![s] = @ + 1]
            /\ lastPw' = [n \in 1 .. MaxUserSeq |->
                            IF n \in ResetTargets(identifier) THEN pw ELSE lastPw[n]]
            /\ prevPw' = [n \in 1 .. MaxUserSeq |->
                            IF n \in ResetTargets(identifier) THEN lastPw[n] ELSE prevPw[n]]
       ELSE UNCHANGED <<grantUses, lastPw, prevPw>>
    /\ UNCHANGED <<userSeq, password_resets, req, clock, otpSeq,
                   lastUpsert, consumed, okCount, verified>>

\* ------------------------------- POST /api/register, step by step
\* Register above takes the handler in one step.  The two actions below take
\* it as its two awaits, bcrypt.hash and the INSERT, so that the requests of
\* two clients interleave between them.

\* lines 206-212: the answer of the validation and hashing segment
RegisterStartResponse(prof, pw) ==
    IF ~isEmail(prof[2]) THEN Resp(400, "Invalid email format.")
    ELSE IF ~isMobilePhone(prof[3]) THEN Resp(400, "Invalid mobile number format.")
    ELSE IF pw = Undefined THEN Resp(500, "Registration failed due to server error.")
    ELSE Pending

RegisterStart(s, prof, pw) ==
    /\ req[s].pc = "idle"
    /\ req' = [req EXCEPT ![s] =
                 IF RegisterStartResponse(prof, pw) = Pending
                 THEN [pc |-> "rg_insert", username |-> prof[1], email |-> prof[2],
                       mobile |-> prof[3], hashedPassword |-> Hash(pw), password |-> pw,
                       seen |-> userSeq]
                 ELSE Idle]
    /\ Listening
    /\ UNCHANGED <<store, session, clock, otpSeq, ledger, history, destroyed,
                   misdelivered, outlived, startup>>

\* lines 213-222: the answer of the INSERT segment
RegisterInsertResponse(r, ok) ==
    IF ~ok THEN Resp(500, "Registration failed due to server error.")
    ELSE IF UniqueViolation(r.username, r.email, r.mobile)
    THEN Resp(409, "Username, email, or mobile already in use.")
    ELSE Resp(201, "User registered successfully")

\* the users table after the INSERT segment
UsersAfterInsert(r, ok) ==
    IF RegisterInsertResponse(r, ok).status = 201
    THEN users \cup { [id |-> userSeq + 1, username |-> r.username, email |-> r.email,
                       mobile |-> r.mobile, password |-> r.hashedPassword] }
    ELSE users

RegisterInsert(s, ok) ==
    LET r == req[s]
        res == RegisterInsertResponse(r, ok)
    IN
    /\ r.pc = "rg_insert"
    /\ req' = [req EXCEPT ![s] = Idle]
    /\ IF res.status \in {201, 409}
       THEN /\ userSeq < MaxUserSeq
            /\ userSeq' = userSeq + 1
       ELSE UNCHANGED userSeq
    /\ users' = UsersAfterInsert(r, ok)
    /\ IF res.status = 201
       THEN lastPw' = [lastPw EXCEPT ![userSeq + 1] = r.password]
       ELSE UNCHANGED lastPw
    /\ UNCHANGED <<password_resets, session, clock, otpSeq, ledger,
                   lastUpsert, consumed, okCount, verified, grantUses, prevPw, destroyed,
                   misdelivered, outlived, startup>>
    /\ Listening

\* ------------------------------------------------ GET /api/check-session
\* mutant: the session is not looked at
CheckSessionResponse_Always(sess) == [loggedIn |-> TRUE, username |-> sess.user.username]

\* res.json of lines 158-162
CheckSessionResponse(sess) ==
    IF sess.user # NoUser
    THEN [loggedIn |-> TRUE, username |-> sess.user.username]
    ELSE [loggedIn |-> FALSE]

\* the handler reads req.session.user and writes nothing
CheckSession(s) ==
    /\ req[s].pc = "idle"
    /\ Listening
    /\ UNCHANGED vars

\* ------------------------------------------------------ /api/transactions
\* mutant: the middleware lets every request through
requireLogin_Open(sess) == TRUE

\* requireLogin: next() is called when req.session.user is set
requireLogin(sess) == sess.user # NoUser

Unauthorized == Resp(401, "Unauthorized")

TxFields == {"type", "amount", "purpose", "category"}

\* !body[field] of JavaScript: the field is absent, 0 or the empty string
Falsy(body, field) ==
    \/ field \notin DOMAIN body
    \/ body[field] = (IF field = "amount" THEN 0 ELSE "")

\* request bodies of POST /api/transactions
ValidBody == [type |-> "income", amount |-> 5, purpose |-> "rent", category |-> "home"]

TxBodies ==
    { ValidBody,
      [ValidBody EXCEPT !.type = "expense"],
      [ValidBody EXCEPT !.type = "bonus"],
      [ValidBody EXCEPT !.amount = 0 - 5],
      [ValidBody EXCEPT !.amount = 0],
      [ValidBody EXCEPT !.purpose = ""],
      [amount |-> 5, purpose |-> "rent", category |-> "home"],
      [type |-> "income", purpose |-> "rent", category |-> "home"],
      [type |-> "income", amount |-> 5, category |-> "home"],
      [type |-> "income", amount |-> 5, purpose |-> "rent"] }

PostTransactionResponse(s, body, ok) ==
    IF ~requireLogin(session[s]) THEN Unauthorized
    ELSE IF \E f \in TxFields : Falsy(body, f) THEN Resp(400, "Missing required fields.")
    ELSE IF ~ok THEN Resp(500, "Failed to save transaction.")
    ELSE Resp(201, "<the inserted row>")

\* INSERT INTO transactions (user_id, type, amount, purpose, category):
\* id from the sequence, date DEFAULT CURRENT_DATE
InsertedRow(userId, body) ==
    [id |-> txSeq + 1, user_id |-> userId, type |-> body.type, amount |-> body.amount,
     purpose |-> body.purpose, category |-> body.category, date |-> today]

PostTransaction(s, body, ok) ==
    /\ req[s].pc = "idle"
    /\ IF PostTransactionResponse(s, body, ok).status = 201
       THEN /\ txSeq < MaxTxSeq
            /\ txSeq' = txSeq + 1
            /\ transactions' = transactions \cup { InsertedRow(session[s].user.id, body) }
       ELSE UNCHANGED <<transactions, txSeq>>
    /\ Listening
    /\ UNCHANGED <<store, session, req, clock, otpSeq, today, history, destroyed,
                   misdelivered, outlived, startup>>

\* mutant: ORDER BY date DESC, id ASC
Before_IdAscending(a, b) == a.date > b.date \/ (a.date = b.date /\ a.id < b.id)

\* ORDER BY date DESC, id DESC: does row a come before row b
Before(a, b) == a.date > b.date \/ (a.date = b.date /\ a.id > b.id)

RECURSIVE OrderRows(_)
OrderRows(rows) ==
    IF rows = {} THEN <<>>
    ELSE LET first == CHOOSE r \in rows : \A q \in rows \ {r} : Before(r, q)
         IN <<first>> \o OrderRows(rows \ {first})

\* SELECT * FROM transactions WHERE user_id = $1 ORDER BY date DESC, id DESC
SelectTransactions(userId) == OrderRows({ r \in transactions : r.user_id = userId })

GetTransactionsResponse(s, ok) ==
    IF ~requireLogin(session[s]) THEN Unauthorized
    ELSE IF ~ok THEN Resp(500, "Failed to retrieve transactions.")
    ELSE Resp(200, "<result.rows>")

\* res.json(result.rows) of a request answered 200
GetTransactionsRows(s) == SelectTransactions(session[s].user.id)

\* the handler reads the table and writes nothing
GetTransactions(s, ok) ==
    /\ req[s].pc = "idle"
    /\ Listening
    /\ UNCHANGED vars

\* ------------------------------------ GET /api/admin/registered-users
\* SELECT id, username, password FROM users ORDER BY id ASC, each row mapped
\* to {id, username, password_hash}
RECURSIVE RegisteredUsers(_)
RegisteredUsers(rows) ==
    IF rows = {} THEN <<>>
    ELSE LET user == CHOOSE r \in rows : \A q \in rows \ {r} : r.id < q.id
         IN <<[id |-> user.id, username |-> user.username, password_hash |-> user.password]>>
            \o RegisteredUsers(rows \ {user})

\* lines 165-183: the route has no requireLogin; the body of the answer
AdminUsersResponse(ok) ==
    IF ~ok THEN [status |-> 500, error |-> "Failed to fetch registered users."]
    ELSE [status |-> 200, total_users |-> Cardinality(users), users |-> RegisteredUsers(users)]

\* the handler reads the users table and writes nothing
AdminUsers(s, ok) ==
    /\ req[s].pc = "idle"
    /\ Listening
    /\ UNCHANGED vars

\* CURRENT_DATE moves on
Midnight ==
    /\ today < MaxDay
    /\ today' = today + 1
    /\ UNCHANGED <<store, session, req, clock, otpSeq, transactions, txSeq, history, destroyed,
                   misdelivered, outlived, startup>>

\* ------------------------------------------------------------------ Next
Alice == <<"alice", "a@x.com", "+15551">>

\* the whole system: the start of the server, every request from every
\* session, and the clock
Next ==
    \/ \E ok \in BOOLEAN : CreateTable(ok)
    \/ Tick
    \/ \E s \in Sessions, prof \in RegInputs, pw \in PasswordInputs, ok \in BOOLEAN :
          Register(s, prof, pw, ok)
    \/ \E s \in Sessions, username \in Usernames, pw \in PasswordInputs, ok \in BOOLEAN :
          Login(s, username, pw, ok)
    \/ \E s \in Sessions : Logout(s)
    \/ \E s \in Sessions, identifier \in IdInputs, ok \in BOOLEAN :
          ForgotStart(s, identifier, ok)
    \/ \E s \in Sessions, ok \in BOOLEAN : ForgotUpsert(s, ok)
    \/ \E s \in Sessions, ok \in BOOLEAN : ForgotSend(s, ok)
    \/ \E s \in Sessions, identifier \in IdInputs, otpCode \in OtpCodes, ok \in BOOLEAN :
          VerifySelect(s, identifier, otpCode, ok)
    \/ \E s \in Sessions, ok \in BOOLEAN : VerifyDelete(s, ok)
    \/ \E s \in Sessions, pw \in PasswordInputs, ok \in BOOLEAN : ResetPassword(s, pw, ok)
    \/ \E s \in Sessions, prof \in RegInputs, pw \in PasswordInputs : RegisterStart(s, prof, pw)
    \/ \E s \in Sessions, ok \in BOOLEAN : RegisterInsert(s, ok)
    \/ \E s \in Sessions : CheckSession(s)
    \/ \E s \in Sessions, body \in TxBodies, ok \in BOOLEAN : PostTransaction(s, body, ok)
    \/ \E s \in Sessions, ok \in BOOLEAN : GetTransactions(s, ok)
    \/ \E s \in Sessions, ok \in BOOLEAN : AdminUsers(s, ok)
    \/ Midnight

Spec == InitStart /\ [][Next]_vars

\* The specifications below restrict Next (each of their steps is a step of
\* Next), so that TLC can run them out.  Those that begin in Init begin where
\* the server has created its tables and listens.

\* the reset flow of one client, request after request, with the clock
NextSeq ==
    \/ Tick
    \/ \E pw \in PasswordInputs, ok \in BOOLEAN : Register("s1", Alice, pw, ok)
    \/ Logout("s1")
    \/ \E identifier \in IdInputs, ok \in BOOLEAN : ForgotStart("s1", identifier, ok)
    \/ \E ok \in BOOLEAN : ForgotUpsert("s1", ok)
    \/ \E ok \in BOOLEAN : ForgotSend("s1", ok)
    \/ \E identifier \in IdInputs, otpCode \in OtpCodes, ok \in BOOLEAN :
          VerifySelect("s1", identifier, otpCode, ok)
    \/ \E ok \in BOOLEAN : VerifyDelete("s1", ok)
    \/ \E pw \in PasswordInputs, ok \in BOOLEAN : ResetPassword("s1", pw, ok)

SpecSeq == Init /\ [][NextSeq]_vars

\* the reset flow of two clients whose requests interleave, for one registered
\* mobile number and one unregistered address, the clock standing still
RaceIds == {"+15551", "n@x.com"}

NextRace ==
    \/ \E ok \in BOOLEAN : Register("s1", Alice, "pw1", ok)
    \/ \E s \in Sessions : Logout(s)
    \/ \E s \in Sessions, identifier \in RaceIds, ok \in BOOLEAN :
          ForgotStart(s, identifier, ok)
    \/ \E s \in Sessions, ok \in BOOLEAN : ForgotUpsert(s, ok)
    \/ \E s \in Sessions, ok \in BOOLEAN : ForgotSend(s, ok)
    \/ \E s \in Sessions, identifier \in RaceIds, otpCode \in OtpCodes, ok \in BOOLEAN :
          VerifySelect(s, identifier, otpCode, ok)
    \/ \E s \in Sessions, ok \in BOOLEAN : VerifyDelete(s, ok)
    \/ \E s \in Sessions, ok \in BOOLEAN : ResetPassword(s, "pw2", ok)

SpecRace == Init /\ [][NextRace]_vars

\* accounts: registration and the reset flow from one client, for the email
\* and the mobile number of a registered user, and login from another client
AccountIds == {"a@x.com", "+15551"}

NextAccount ==
    \/ \E prof \in RegInputs, pw \in PasswordInputs, ok \in BOOLEAN :
          Register("s1", prof, pw, ok)
    \/ \E username \in Usernames, pw \in PasswordInputs, ok \in BOOLEAN :
          Login("s2", username, pw, ok)
    \/ Logout("s2")
    \/ \E identifier \in AccountIds, ok \in BOOLEAN : ForgotStart("s1", identifier, ok)
    \/ \E ok \in BOOLEAN : ForgotUpsert("s1", ok)
    \/ \E ok \in BOOLEAN : ForgotSend("s1", ok)
    \/ \E identifier \in AccountIds, otpCode \in OtpCodes, ok \in BOOLEAN :
          VerifySelect("s1", identifier, otpCode, ok)
    \/ \E ok \in BOOLEAN : VerifyDelete("s1", ok)
    \/ \E pw \in PasswordInputs, ok \in BOOLEAN : ResetPassword("s1", pw, ok)

SpecAccount == Init /\ [][NextAccount]_vars

\* registrations of two clients, interleaving between hashing and INSERT
NextUsers ==
    \/ \E s \in Sessions, prof \in RegInputs, pw \in PasswordInputs : RegisterStart(s, prof, pw)
    \/ \E s \in Sessions, ok \in BOOLEAN : RegisterInsert(s, ok)

SpecUsers == Init /\ [][NextUsers]_vars

\* everything one client does to its session: login, logout, check-session and
\* the reset flow, the clock standing still
NextSession ==
    \/ \E ok \in BOOLEAN : Register("s1", Alice, "pw1", ok)
    \/ \E username \in Usernames, pw \in Passwords, ok \in BOOLEAN :
          Login("s1", username, pw, ok)
    \/ Logout("s1")
    \/ CheckSession("s1")
    \/ \E ok \in BOOLEAN : AdminUsers("s1", ok)
    \/ \E identifier \in IdInputs, ok \in BOOLEAN : ForgotStart("s1", identifier, ok)
    \/ \E ok \in BOOLEAN : ForgotUpsert("s1", ok)
    \/ \E ok \in BOOLEAN : ForgotSend("s1", ok)
    \/ \E identifier \in IdInputs, otpCode \in OtpCodes, ok \in BOOLEAN :
          VerifySelect("s1", identifier, otpCode, ok)
    \/ \E ok \in BOOLEAN : VerifyDelete("s1", ok)
    \/ \E pw \in PasswordInputs, ok \in BOOLEAN : ResetPassword("s1", pw, ok)

SpecSession == Init /\ [][NextSession]_vars

\* the start of the server, and then the requests of one client
NextStart ==
    \/ \E ok \in BOOLEAN : CreateTable(ok)
    \/ NextSession

SpecStart == InitStart /\ [][NextStart]_vars

Bob == <<"bob", "b@x.com", "+15552">>

\* the transactions of two users from two clients, over the days
NextTx ==
    \/ \E prof \in {Alice, Bob} : Register("s1", prof, "pw1", TRUE)
    \/ \E s \in Sessions, username \in {"alice", "bob"} : Login(s, username, "pw1", TRUE)
    \/ \E s \in Sessions : Logout(s)
    \/ \E s \in Sessions, ok \in BOOLEAN : PostTransaction(s, ValidBody, ok)
    \/ \E s \in Sessions, ok \in BOOLEAN : GetTransactions(s, ok)
    \/ Midnight

SpecTx == Init /\ [][NextTx]_vars

\* the bodies one logged-in client posts
NextTxBody ==
    \/ Register("s1", Alice, "pw1", TRUE)
    \/ Login("s1", "alice", "pw1", TRUE)
    \/ Logout("s1")
    \/ \E body \in TxBodies, ok \in BOOLEAN : PostTransaction("s1", body, ok)
    \/ \E ok \in BOOLEAN : GetTransactions("s1", ok)

SpecTxBody == Init /\ [][NextTxBody]_vars

\* ================================================================ claims

\* C1: a reset-password issued by a session in which no verify-otp request was
\* answered 200 is answered 401 and changes no user's password digest.
\* The delete of verify-otp can fail after the flag was set (line 284 runs
\* before line 287): the request is answered 500 and the session may reset.
C1_ResetNeedsVerifiedSession ==
    \A s \in Sessions, pw \in PasswordInputs, ok \in BOOLEAN :
        (req[s].pc = "idle" /\ verified[s] = {}) =>
            /\ ResetResponse(s, pw, ok).status = 401
            /\ UsersAfterReset(s, pw, ok) = users

\* C2: of the verify-otp requests that submit the same identifier and the same
\* issued code, at most one is answered 200.
C2_AtMostOneSuccessPerCode ==
    \A n \in 1 .. MaxIssues : okCount[n] <= 1

TenMinutes == 10 * 60 * 1000

InvalidCode == Resp(400, "Invalid verification code.")

\* C3: request after request, the first verify-otp with the issued code before
\* its expiry passes both checks, its DELETE removes the ledger row and it is
\* answered 200; from then on, until a new code is upserted for the
\* identifier, there is no row and verify-otp with that code is answered
\* 400 "Invalid verification code." (store statements succeeding).
C3_CodeIsSingleUse ==
    /\ \A i \in IdInputs, c \in OtpCodes :
          /\ (lastUpsert[i].code = c /\ DateNow <= lastUpsert[i].at + TenMinutes)
                => VerifySelectResponse(i, c, TRUE) = Pending
          /\ consumed[i]
                => /\ ResetsFor(i) = {}
                   /\ VerifySelectResponse(i, c, TRUE) = InvalidCode
    /\ \A s \in Sessions :
          req[s].pc = "vo_delete"
             => /\ VerifyDeleteResponse(TRUE).status = 200
                /\ \A r \in DeleteResets(password_resets, req[s].identifier) :
                      r.identifier # req[s].identifier

\* C3 witness: a code was verified and consumed, and no new one was issued
C3_Witness ==
    \E i \in IdInputs :
        consumed[i] /\ req["s1"].pc = "idle" /\ i \in verified["s1"]

\* C4: an idle session holds resetIdentifier = i only if a verify-otp for i in
\* that session was answered 200, and a verify-otp that is answered with an
\* error leaves the session's resetIdentifier as it was before the request.
C4_FlagOnlyBySuccess ==
    /\ [](\A s \in Sessions :
            (req[s].pc = "idle" /\ session[s].resetIdentifier # NoId)
                => session[s].resetIdentifier \in verified[s])
    /\ [][\A s \in Sessions :
            /\ (\E ok \in BOOLEAN :
                   VerifyDelete(s, ok) /\ VerifyDeleteResponse(ok).status # 200)
                  => session'[s].resetIdentifier = req[s].flagBefore
            /\ (\E i \in IdInputs, c \in OtpCodes, ok \in BOOLEAN :
                   VerifySelect(s, i, c, ok) /\ VerifySelectResponse(i, c, ok) # Pending)
                  => session'[s] = session[s]]_vars

\* C5 as stated: whenever reset-password finds resetIdentifier set, the
\* session no longer holds it after the request, whatever the answer.
C5_ClearedByAnyAttempt ==
    \A s \in Sessions, pw \in PasswordInputs, ok \in BOOLEAN :
        (req[s].pc = "idle" /\ session[s].resetIdentifier # NoId)
            => FlagAfterReset(session[s].resetIdentifier,
                              ResetResponse(s, pw, ok).status) = NoId

\* C5 amended: reset-password clears resetIdentifier when it is answered 200
\* and keeps it when it is answered 500; without the flag it is answered 401;
\* so one grant serves at most one reset-password that is answered 200.
C5_ClearedBySuccess ==
    \A s \in Sessions :
        /\ grantUses[s] <= 1
        /\ \A pw \in PasswordInputs, ok \in BOOLEAN :
              LET flag == session[s].resetIdentifier
                  res == ResetResponse(s, pw, ok)
              IN req[s].pc = "idle" =>
                    /\ (flag = NoId) = (res.status = 401)
                    /\ res.status \in {200, 401, 500}
                    /\ res.status = 200 => FlagAfterReset(flag, res.status) = NoId
                    /\ res.status = 500 => FlagAfterReset(flag, res.status) = flag

\* C5 witness: a granted permission was used by a reset-password answered 200
\* and is gone
C5_Witness ==
    \E s \in Sessions :
        /\ grantUses[s] = 1 /\ req[s].pc = "idle"
        /\ session[s].resetIdentifier = NoId /\ verified[s] # {}

\* what forgot-password answers for an identifier that matches no user
GenericForgot == Resp(200, "If user exists, code has been sent.")

\* C6: forgot-password answers an identifier that matches a registered user
\* (the requests past the lookup) exactly as it answers one that matches no
\* user, every store statement and the delivery succeeding.
C6_SameAnswerRegisteredOrNot ==
    \A s \in Sessions, j \in IdInputs :
        UserLookup(j) = {} =>
            /\ req[s].pc = "fp_upsert" =>
                  ForgotUpsertResponse(s, TRUE) \in {Pending, ForgotStartResponse(j, TRUE)}
            /\ req[s].pc = "fp_send" =>
                  ForgotSendResponse(TRUE) = ForgotStartResponse(j, TRUE)

\* C7: the ledger holds at most one row per identifier; while upserts have
\* written a row for an identifier and no DELETE has removed it, the ledger
\* holds exactly one row for it, carrying the code of the last upsert; and
\* verify-otp with the code that upsert replaced, or any other code than the
\* last one, is answered 400 "Invalid verification code.".
C7_LastUpsertWins ==
    \A i \in IdInputs :
        /\ Cardinality(ResetsFor(i)) <= 1
        /\ lastUpsert[i].code # NoCode
              => \E r \in ResetsFor(i) : r.code = lastUpsert[i].code
        /\ lastUpsert[i].code = NoCode => ResetsFor(i) = {}
        /\ (lastUpsert[i].prev # NoCode /\ lastUpsert[i].prev # lastUpsert[i].code)
              => VerifySelectResponse(i, lastUpsert[i].prev, TRUE) = InvalidCode
        /\ \A c \in OtpCodes :
              c # lastUpsert[i].code => VerifySelectResponse(i, c, TRUE) = InvalidCode

\* C7 witness: two forgot-password requests upserted one identifier's row,
\* the second with another code than the first
C7_Witness ==
    \E i \in IdInputs :
        /\ lastUpsert[i].prev # NoCode /\ lastUpsert[i].prev # lastUpsert[i].code
        /\ \A s \in Sessions : req[s].pc = "idle"

ExpiredCode == Resp(400, "Verification code has expired.")

\* C8: verify-otp with the code last issued for an identifier is answered
\* 400 "Verification code has expired." and leaves the session as it was
\* exactly when the clock reads later than the issue time plus 10 minutes; up
\* to and including that instant the code passes the checks and the session
\* is granted the reset for the identifier.
C8_ExpiryAtTenMinutes ==
    \A i \in IdInputs :
        lastUpsert[i].code # NoCode =>
            LET res == VerifySelectResponse(i, lastUpsert[i].code, TRUE)
                late == DateNow > lastUpsert[i].at + TenMinutes
            IN /\ late <=> res = ExpiredCode
               /\ ~late <=> res = Pending
               /\ \A s \in Sessions :
                     LET after == SessionAfterVerify(s, i, lastUpsert[i].code, TRUE) IN
                     req[s].pc = "idle" =>
                        /\ late => after = session[s]
                        /\ ~late => after.resetIdentifier = i
               /\ \A r \in ResetsFor(i) : r.expires_at = lastUpsert[i].at + TenMinutes

\* C8 witness: the clock is past the deadline of a code that is in the ledger
C8_Witness ==
    \E i \in IdInputs :
        /\ lastUpsert[i].code # NoCode
        /\ DateNow > lastUpsert[i].at + TenMinutes
        /\ req["s1"].pc = "idle"

InvalidCredentials == Resp(401, "Invalid credentials")

\* C9: once a reset-password was answered 200 with password p in a session
\* whose permission was for a user's email or mobile, login with that user's
\* username and p is answered 200, and login with the password the user had
\* before (when it differs from p) is answered 401 (the store succeeding).
C9_LoginAfterReset ==
    \A u \in users :
        prevPw[u.id] # Undefined =>
            /\ Compare(lastPw[u.id], u.password)
            /\ LoginResponse(u.username, lastPw[u.id], TRUE).status = 200
            /\ prevPw[u.id] # lastPw[u.id]
                  => LoginResponse(u.username, prevPw[u.id], TRUE) = InvalidCredentials

\* C9 witness: a user's password was reset to another one than before
C9_Witness ==
    \E u \in users :
        /\ prevPw[u.id] # Undefined /\ prevPw[u.id] # lastPw[u.id]
        /\ grantUses["s1"] = 1

\* C10: for a registered user whose password was not reset, login with the
\* username and the registered password is answered 200 and binds that
\* user's {id, username} into the session; login with a username that no user
\* has, or with another password than the one last set, is answered
\* 401 "Invalid credentials" and binds nothing (the store succeeding).
C10_LoginAfterRegister ==
    /\ \A u \in users :
          prevPw[u.id] = Undefined =>
             /\ LoginResponse(u.username, lastPw[u.id], TRUE) = Resp(200, "Login successful")
             /\ LoginBinding(u.username) = [id |-> u.id, username |-> u.username]
    /\ \A name \in Usernames, pw \in Passwords :
          (\A u \in users : u.username = name => lastPw[u.id] # pw)
             => LoginResponse(name, pw, TRUE) = InvalidCredentials
    /\ \A s \in Sessions :
          session[s].user # NoUser
             => \E u \in users : session[s].user = [id |-> u.id, username |-> u.username]

\* C10 witness: a session is bound to a registered user whose password was
\* never reset
C10_Witness ==
    \E s \in Sessions, u \in users :
        /\ session[s].user = [id |-> u.id, username |-> u.username]
        /\ prevPw[u.id] = Undefined

\* the user records that share a username, an email or a mobile with the body
Clashing(username, email, mobile) ==
    { u \in users : u.username = username \/ u.email = email \/ u.mobile = mobile }

Conflict == Resp(409, "Username, email, or mobile already in use.")

\* C11: in every reachable state no two user records share an id, a username,
\* an email or a mobile; an INSERT of a register request that clashes with an
\* existing user, also one that was added while the request was being hashed,
\* is answered 409 Conflict when the store answers and leaves the users as
\* they are; a new register request that clashes is never answered 201, and
\* is answered 409 Conflict when it is well-formed and the store answers.
C11_UsersAreUnique ==
    /\ \A u, v \in users :
          u # v => /\ u.id # v.id
                   /\ u.username # v.username
                   /\ u.email # v.email
                   /\ u.mobile # v.mobile
    /\ \A s \in Sessions :
          (req[s].pc = "rg_insert"
             /\ Clashing(req[s].username, req[s].email, req[s].mobile) # {})
          => /\ RegisterInsertResponse(req[s], TRUE) = Conflict
             /\ \A ok \in BOOLEAN : UsersAfterInsert(req[s], ok) = users
    /\ \A prof \in RegInputs, pw \in PasswordInputs, ok \in BOOLEAN :
          Clashing(prof[1], prof[2], prof[3]) # {}
          => /\ RegisterResponse(prof, pw, ok).status # 201
             /\ (isEmail(prof[2]) /\ isMobilePhone(prof[3]) /\ pw # Undefined /\ ok)
                   => RegisterResponse(prof, pw, ok) = Conflict

\* C11 witness: a registration waits at its INSERT while a user it clashes
\* with was inserted after the registration began
C11_Witness ==
    \E s \in Sessions :
        /\ req[s].pc = "rg_insert"
        /\ \E u \in Clashing(req[s].username, req[s].email, req[s].mobile) :
              u.id > req[s].seen

\* what a session without a user and without a reset permission is answered
LoggedOutAnswers(s) ==
    /\ CheckSessionResponse(session[s]).loggedIn = FALSE
    /\ \A body \in TxBodies, ok \in BOOLEAN : PostTransactionResponse(s, body, ok).status = 401
    /\ \A ok \in BOOLEAN : GetTransactionsResponse(s, ok).status = 401
    /\ \A pw \in PasswordInputs, ok \in BOOLEAN : ResetResponse(s, pw, ok).status = 401

\* C12: a logout destroys the whole session: right after every logout, and
\* for as long as no login or verify-otp writes to the session again,
\* check-session reports loggedIn false, both transaction endpoints answer
\* 401 and reset-password answers 401, also when the session held a reset
\* permission before the logout.
C12_LogoutDestroysSession ==
    /\ [](\A s \in Sessions : destroyed[s] => LoggedOutAnswers(s))
    /\ [][\A s \in Sessions : Logout(s) => LoggedOutAnswers(s)']_vars

\* C12 witness: a logout destroyed a session that held a user and a reset
\* permission
C12_Witness ==
    /\ destroyed["s1"]
    /\ users # {}

\* C13: on a session that holds no user, POST /api/transactions (whatever the
\* body) and GET /api/transactions are answered 401 Unauthorized, and a step
\* of POST /api/transactions in such a session leaves the transactions table
\* and its sequence as they are.
C13_TransactionsNeedLogin ==
    /\ [](\A s \in Sessions :
            session[s].user = NoUser
            => /\ \A body \in TxBodies, ok \in BOOLEAN :
                     PostTransactionResponse(s, body, ok) = Unauthorized
               /\ \A ok \in BOOLEAN : GetTransactionsResponse(s, ok) = Unauthorized)
    /\ [][\A s \in Sessions :
            (session[s].user = NoUser
               /\ \E ok \in BOOLEAN : PostTransaction(s, ValidBody, ok))
            => transactions' = transactions /\ txSeq' = txSeq]_vars
    /\ [](\A row \in transactions : \E u \in users : u.id = row.user_id)

\* C13 witness: a client without a user in its session faces a table that
\* holds transactions of a registered user
C13_Witness ==
    \E s \in Sessions :
        /\ session[s].user = NoUser
        /\ req[s].pc = "idle"
        /\ transactions # {}
        /\ txSeq < MaxTxSeq

\* C14: for every session that holds a user, whatever was inserted by whom and
\* in which order, the rows GET /api/transactions returns are rows of the
\* table whose user_id is the session user's id, each of them once, and every
\* earlier row of the list has a later date than the rows after it or the
\* same date and a greater id.
C14_OwnRowsNewestFirst ==
    \A s \in Sessions :
        session[s].user # NoUser =>
            LET rows == GetTransactionsRows(s) IN
            /\ \A ok \in BOOLEAN :
                  GetTransactionsResponse(s, ok).status = (IF ok THEN 200 ELSE 500)
            /\ \A i \in 1 .. Len(rows) :
                  /\ rows[i] \in transactions
                  /\ rows[i].user_id = session[s].user.id
            /\ \A i, j \in 1 .. Len(rows) :
                  i < j => \/ rows[i].date > rows[j].date
                           \/ (rows[i].date = rows[j].date /\ rows[i].id > rows[j].id)

\* C14 witness: the session user has two rows of one date, and a row that
\* another user inserted between them
C14_Witness ==
    \E s \in Sessions :
        /\ session[s].user # NoUser
        /\ LET rows == GetTransactionsRows(s) IN
           /\ Len(rows) = 2
           /\ rows[1].date = rows[2].date
           /\ \E other \in transactions :
                 /\ other.user_id # session[s].user.id
                 /\ rows[2].id < other.id /\ other.id < rows[1].id

\* C14 second witness: the session user has rows of different dates
C14_WitnessDates ==
    \E s \in Sessions :
        /\ session[s].user # NoUser
        /\ LET rows == GetTransactionsRows(s) IN
           /\ Len(rows) >= 2
           /\ rows[1].date > rows[2].date

\* what becomes of a request whose async handler rejects outside any try
\* block: Express 4 does not watch the promise, so nothing is ever sent;
\* Express 5 hands the error to its default error handler
UnhandledRejection == { NoResponse, Resp(500, "<default error handler>") }

\* the answers forgot-password can give at the end of its lookup segment
ForgotStartOutcomes(identifier, ok) ==
    IF ok THEN { ForgotStartResponse(identifier, ok) } ELSE UnhandledRejection

\* C15: whenever a store operation of a request fails, the request is answered
\* with status 500: the INSERT of register, the SELECT of login, the lookup
\* and the upsert of forgot-password, the SELECT and the DELETE of verify-otp,
\* the UPDATE of reset-password, the INSERT and the SELECT of the transaction
\* endpoints.
C15_StoreFailureIs500 ==
    /\ \A prof \in {Alice, Bob}, pw \in Passwords :
          RegisterResponse(prof, pw, FALSE).status = 500
    /\ \A username \in Usernames, pw \in Passwords :
          LoginResponse(username, pw, FALSE).status = 500
    /\ \A identifier \in IdInputs, otpCode \in OtpCodes :
          VerifySelectResponse(identifier, otpCode, FALSE).status = 500
    /\ VerifyDeleteResponse(FALSE).status = 500
    /\ \A s \in Sessions :
          /\ req[s].pc = "fp_upsert" => ForgotUpsertResponse(s, FALSE).status = 500
          /\ session[s].resetIdentifier # NoId
                => \A pw \in Passwords : ResetResponse(s, pw, FALSE).status = 500
          /\ session[s].user # NoUser
                => /\ PostTransactionResponse(s, ValidBody, FALSE).status = 500
                   /\ GetTransactionsResponse(s, FALSE).status = 500
    /\ users # {}
          => \A identifier \in IdInputs :
                \A answer \in ForgotStartOutcomes(identifier, FALSE) : answer.status = 500

\* a step of the forgot-password request of session s
ForgotStep(s) ==
    \/ \E identifier \in IdInputs, ok \in BOOLEAN : ForgotStart(s, identifier, ok)
    \/ \E ok \in BOOLEAN : ForgotUpsert(s, ok)
    \/ \E ok \in BOOLEAN : ForgotSend(s, ok)

\* C16: no step of a forgot-password request, whatever the identifier and the
\* outcome, changes the session (user and resetIdentifier) or the users; the
\* lookup step for an identifier that matches no user changes nothing at all,
\* and the ledger never holds a row for an identifier that is not the email
\* or the mobile of a user.
C16_ForgotLeavesSession ==
    /\ [][\A s \in Sessions :
            ForgotStep(s) => session' = session /\ users' = users /\ userSeq' = userSeq]_vars
    /\ [][\A s \in Sessions, identifier \in IdInputs, ok \in BOOLEAN :
            (ForgotStart(s, identifier, ok) /\ \A u \in users : u.email # identifier
                                                             /\ u.mobile # identifier)
            => UNCHANGED <<password_resets, users, session, req>>]_vars
    /\ [](\A row \in password_resets :
             \E u \in users : u.email = row.identifier \/ u.mobile = row.identifier)

\* C16 witness: a forgot-password request is under way in a session that holds
\* a user and a reset permission, with a code in the ledger
C16_Witness ==
    /\ session["s1"].user # NoUser
    /\ session["s1"].resetIdentifier # NoId
    /\ password_resets # {}
    /\ req["s1"].pc \in {"fp_upsert", "fp_send"}

\* C17: check-session changes nothing (session, users, ledger, transactions),
\* and it answers loggedIn true exactly when the session holds a user, then
\* with the username of that user, who is a registered user.
C17_CheckSessionIsPure ==
    /\ [](\A s \in Sessions :
            LET answer == CheckSessionResponse(session[s]) IN
            /\ answer.loggedIn = (session[s].user # NoUser)
            /\ answer.loggedIn
                  => /\ answer.username = session[s].user.username
                     /\ \E u \in users : /\ u.id = session[s].user.id
                                         /\ u.username = answer.username
            /\ ~answer.loggedIn => answer = [loggedIn |-> FALSE])
    /\ [][\A s \in Sessions :
            CheckSession(s)
            => UNCHANGED <<session, users, password_resets, transactions, req>>]_vars

\* C17 witness: check-session can run in a session that holds a user, over a
\* ledger that holds a code
C17_Witness ==
    /\ req["s1"].pc = "idle"
    /\ session["s1"].user # NoUser
    /\ CheckSessionResponse(session["s1"]) = [loggedIn |-> TRUE, username |-> "alice"]
    /\ password_resets # {}

\* a step of a login request of session s
LoginStep(s) ==
    \E username \in Usernames, pw \in PasswordInputs, ok \in BOOLEAN : Login(s, username, pw, ok)

\* a step of a verify-otp or reset-password request of session s
ResetFlowStep(s) ==
    \/ \E identifier \in IdInputs, otpCode \in OtpCodes, ok \in BOOLEAN :
          VerifySelect(s, identifier, otpCode, ok)
    \/ \E ok \in BOOLEAN : VerifyDelete(s, ok)
    \/ \E pw \in PasswordInputs, ok \in BOOLEAN : ResetPassword(s, pw, ok)

\* C18: a login step, successful or not, leaves the session's resetIdentifier
\* as it was, and a step of verify-otp or reset-password leaves the session's
\* user as it was.
C18_UserAndFlagOrthogonal ==
    /\ [][\A s \in Sessions :
            LoginStep(s) => session'[s].resetIdentifier = session[s].resetIdentifier]_vars
    /\ [][\A s \in Sessions :
            ResetFlowStep(s) => session'[s].user = session[s].user]_vars

\* C18 witness: verify-otp has granted the permission, and waits at its DELETE,
\* in a session that held a user before and holds it still
C18_Witness ==
    /\ req["s1"].pc = "vo_delete"
    /\ session["s1"].user # NoUser
    /\ session["s1"].resetIdentifier # NoId

\* a string of six decimal digits
IsSixDigits(code) == Len(code) = 6 /\ \A i \in 1 .. 6 : code[i] \in 0 .. 9

\* every value of Math.random() to three decimal places
RandomThousandths == 0 .. 999

\* strings of the claimed set: the least one, and the least and the greatest
\* code of the draws above
SixDigitProbes == { <<0, 0, 0, 0, 0, 0>>, <<1, 0, 0, 0, 0, 0>>, <<9, 9, 9, 1, 0, 0>> }

\* C19: the codes forgot-password stores are exactly the strings of six
\* decimal digits from 000000 on: every stored code is such a string, and
\* each such string, 000000 included, is the code of some value of
\* Math.random().
C19_CodeSpaceIsAllSixDigits ==
    /\ \A row \in password_resets : IsSixDigits(row.code)
    /\ password_resets # {}
          => \A code \in SixDigitProbes :
                \E random \in RandomThousandths : GenerateOtp(random) = code

\* the values the data model gives a transaction's type
TxTypes == {"income", "expense"}

\* C20: every stored transaction row has type income or expense and a
\* positive amount; a POST /api/transactions of a logged-in client whose body
\* lacks one of type, amount, purpose and category is answered 400.
C20_RowsFitDataModel ==
    /\ \A row \in transactions : row.type \in TxTypes /\ row.amount > 0
    /\ \A s \in Sessions, body \in TxBodies, ok \in BOOLEAN :
          (session[s].user # NoUser /\ DOMAIN body # TxFields)
          => PostTransactionResponse(s, body, ok) = Resp(400, "Missing required fields.")

\* a 500 of forgot-password: its upsert, or the delivery after it, failed
ForgotFailure == Resp(500, "Failed to initiate password reset service.")

\* C21: a forgot-password request that is answered 500 leaves the ledger row
\* of its identifier as it was before the request: after a failed upsert the
\* ledger is unchanged, and after a failed delivery the ledger holds no row
\* written by this request, so that the code issued before is still the one
\* that verifies.
C21_FailedForgotKeepsRow ==
    /\ [][\A s \in Sessions, ok \in BOOLEAN :
            (ForgotUpsert(s, ok) /\ ForgotUpsertResponse(s, ok) = ForgotFailure)
            => password_resets' = password_resets]_vars
    /\ [][\A s \in Sessions, ok \in BOOLEAN :
            (ForgotSend(s, ok) /\ ForgotSendResponse(ok) = ForgotFailure)
            => \A row \in password_resets' :
                  row.identifier = req[s].identifier => row.issue # req[s].issue]_vars

\* the users forgot-password looks up: by mobile if phone-shaped, else by email
ForgotMatches(identifier) ==
    { u \in users : IF isMobilePhone(identifier) THEN u.mobile = identifier
                                                 ELSE u.email = identifier }

\* the users reset-password updates: by email if email-shaped, else by mobile
ResetMatches(identifier) ==
    { u \in users : IF isEmail(identifier) THEN u.email = identifier
                                           ELSE u.mobile = identifier }

\* identifiers of both shapes and of neither
IdProbes == IdInputs \cup AccountIds \cup {"junk"}

\* C22: a step that changes user records without inserting one is a
\* reset-password answered 200 in a session whose permission names exactly
\* one user by email or mobile: that user's record is the only one replaced,
\* by the same record with a digest of the new password, and every other
\* user record stays; for every identifier the column reset-password chooses
\* selects the users forgot-password matched, and an identifier in the ledger
\* or in a session matches exactly one user.
C22_ResetChangesOneUser ==
    /\ [][(users' # users /\ userSeq' = userSeq)
          => \E s \in Sessions, pw \in Passwords :
                LET identifier == session[s].resetIdentifier
                    targets == { u \in users : u.email = identifier \/ u.mobile = identifier }
                IN /\ ResetResponse(s, pw, TRUE).status = 200
                   /\ Cardinality(targets) = 1
                   /\ users \ users' = targets
                   /\ users' \ users = { [u EXCEPT !.password = Hash(pw)] : u \in targets }]_vars
    /\ [](\A identifier \in IdProbes : ForgotMatches(identifier) = ResetMatches(identifier))
    /\ [](\A row \in password_resets : Cardinality(ResetMatches(row.identifier)) = 1)
    /\ [](\A s \in Sessions :
             session[s].resetIdentifier # NoId
             => Cardinality(ResetMatches(session[s].resetIdentifier)) = 1)

\* C22 witness: of two users, one had the password reset to another one than
\* the second user's, who still has the registered password
C22_Witness ==
    \E u, v \in users :
        /\ u # v
        /\ prevPw[u.id] # Undefined /\ prevPw[v.id] = Undefined
        /\ lastPw[u.id] # lastPw[v.id]
        /\ Compare(lastPw[v.id], v.password)

\* ------------------------------------------------------------------ C23
\* two clients running the reset flow for one registered mobile number, every
\* store call and every SMS succeeding, the clock standing still
NextDeliver ==
    \/ Register("s1", Alice, "pw1", TRUE)
    \/ \E s \in Sessions : ForgotStart(s, "+15551", TRUE)
    \/ \E s \in Sessions : ForgotUpsert(s, TRUE)
    \/ \E s \in Sessions : ForgotSend(s, TRUE)
    \/ \E s \in Sessions, otpCode \in OtpCodes : VerifySelect(s, "+15551", otpCode, TRUE)
    \/ \E s \in Sessions : VerifyDelete(s, TRUE)

SpecDeliver == Init /\ [][NextDeliver]_vars

\* a forgot-password request for the identifier is between its upsert and its answer
ForgotInFlight(identifier) ==
    \E s \in Sessions : /\ req[s].pc \in {"fp_upsert", "fp_send"}
                        /\ req[s].identifier = identifier

\* C23: when every forgot-password request for a mobile identifier has been
\* answered, all of them with success, the SMS sent last carried the code the
\* ledger holds for the identifier.
C23_LastDeliveredIsStored ==
    \A identifier \in IdInputs :
        (isMobilePhone(identifier) /\ ~ForgotInFlight(identifier))
            => ~misdelivered[identifier]

\* ------------------------------------------------------------------ C24
\* the step is a reset-password that answered 200
ResetSucceeded == \E s \in Sessions : grantUses'[s] = grantUses[s] + 1

\* C24: a reset-password that succeeds writes no session but its own and no
\* session's user; a session that was logged in as the user whose password is
\* replaced keeps its user, and check-session answers it loggedIn true with the
\* username of that user, until the session logs out or logs in again.
C24_ResetLeavesOtherSessions ==
    /\ [][ResetSucceeded
          => \A t \in Sessions :
                /\ session'[t].user = session[t].user
                /\ grantUses'[t] = grantUses[t] => session'[t] = session[t]]_vars
    /\ [][\A t \in Sessions :
            (outlived[t] /\ outlived'[t]) => session'[t].user = session[t].user]_vars
    /\ [](\A t \in Sessions :
            outlived[t]
            => LET answer == CheckSessionResponse(session[t]) IN
               /\ answer.loggedIn
               /\ \E u \in users : /\ u.id = session[t].user.id
                                   /\ u.username = answer.username
                                   /\ prevPw[u.id] # Undefined)

\* another client replaced the password of the user the session is logged in
\* as, with a different one, and the session is still logged in
C24_Witness ==
    /\ outlived["s2"]
    /\ session["s2"].user # NoUser
    /\ \E u \in users : /\ u.id = session["s2"].user.id
                        /\ lastPw[u.id] # prevPw[u.id]
                        /\ Compare(lastPw[u.id], u.password)

\* ------------------------------------------------------------------ C25
\* the password digests in the body of an answer of the admin listing
Digests(answer) ==
    IF answer.status = 200
    THEN { answer.users[n].password_hash : n \in DOMAIN answer.users }
    ELSE {}

\* C25: a session that holds no user gets no password digest of any user in
\* the answer to a request it can make.  Of the routes, only the listing of
\* registered users puts rows of the users table in its answer.
C25_NoDigestWithoutLogin ==
    \A s \in Sessions, ok \in BOOLEAN :
        (session[s].user = NoUser /\ req[s].pc = "idle" /\ Listening)
            => Digests(AdminUsersResponse(ok)) \cap { u.password : u \in users } = {}

\* ------------------------------------------------------------------ C26
\* C26: the server listens only when initializeDatabase has created all its
\* tables; once a CREATE TABLE has failed the server never listens; and while
\* the server does not listen no request is handled: no handler can take a
\* step and nothing but the tables changes.
C26_ListensOnlyAfterInit ==
    /\ [](Listening => tables = Tables)
    /\ [](~Listening => ~ENABLED NextSession)
    /\ [][server = <<"failed">> => server' = <<"failed">>]_vars
    /\ [][~Listening
          => UNCHANGED <<store, session, req, clock, otpSeq, ledger, history, destroyed>>]_vars

\* the second or the third CREATE TABLE failed on a database that had no
\* table: the server is not listening, with some tables created
C26_Witness ==
    /\ server = <<"failed">>
    /\ tables # {}
    /\ tables # Tables

====
